---- MODULE Spec2Model ----
(***************************************************************************)
(* Model of the TrackHS reservation fetch script (fetch-reservations.js):  *)
(* class TrackHSClient (cookie jar, bearer token, login, getApiToken,      *)
(* fetchAllReservations, saveReservations) and main(), and of the two      *)
(* exporters that read the file it writes (reservations-to-csv.js,         *)
(* reservations-to-ical.js).                                               *)
(*                                                                         *)
(* One action is one run-to-completion step of the JavaScript event loop:  *)
(* from the settling of the promise the run is awaiting to the next await. *)
(* The server, the network and the file system are the environment: each   *)
(* action draws the outcome of the awaited operation from a small set.     *)
(*                                                                         *)
(* Strings that the code takes apart (cookies, Location headers) are       *)
(* sequences of characters or of path tokens, so that split, startsWith    *)
(* and includes are computed and not assumed.  null, undefined and the     *)
(* empty string, which the code only ever tests for truthiness, are the    *)
(* empty string "" (or the empty sequence for character strings).  The     *)
(* words of the command line and the values of the settings are character  *)
(* strings; a flag is a string of one token.                               *)
(***************************************************************************)
EXTENDS Integers, Sequences, FiniteSets, TLC

VARIABLES
    process,          \* process.argv.slice(2) and process.env
    cfg,              \* main: startDate, endDate, outputFile, domain, username,
                      \* password, sessionCookie (all absent until main parsed them)
    pc,               \* the await main() is suspended at
    exitCode,         \* -1 while running, else the status given to process.exit
    error,            \* which throw (or exit path) ended the run, "" if none
    cookies,          \* TrackHSClient.cookies
    token,            \* TrackHSClient.token ("" = null)
    currentPage,      \* fetchAllReservations: currentPage
    totalPages,       \* fetchAllReservations: totalPages
    allReservations,  \* fetchAllReservations: allReservations
    returned,         \* fetchAllReservations has returned
    result,           \* main: reservations (value fetchAllReservations returned)
    file,             \* the output file: <<"untouched">>, <<"partial">>, <<"json", records>>
    disk,             \* the file system: the directories mkdir made and the paths writeFile wrote to
    loginOk,          \* login() returned true
    requests,         \* history: the requests issued, in order
    served,           \* history: embedded records of the listing responses, in order
    firstResp,        \* history: <<>> or <<summary of the first listing response>>
    uniform,          \* history: every listing response so far was 200 with firstResp's total and size
    nonOk,            \* history: some listing response had a status other than 200
    lastList,         \* <<>> or <<summary of the listing response the loop has just processed>>
    delays,           \* history: the delays fetchAllReservations awaited, in ms, in order
    prevSetCookies,   \* history: <<>> or <<the Set-Cookie headers of the response handled last>>
    lastSet,          \* history: set of <<name, pair>>, the latest Set-Cookie per cookie name
    postResp,         \* history: <<>> or <<status, location>> of the login POST response
    loginPageResponse, \* login: <<>> or <<the answer to GET /owner/>>, until the POST is answered
    tokenResp,        \* history: <<>> or <<status and body of the token response>>
    sent,             \* <<>> or <<the cookie and authorization headers of the request in flight>>
    inflight,         \* requests handed to https.request whose promise has not settled
    now,              \* the clock the exporters read
    csvFiles,         \* reservations-to-csv.js: the content written by each run so far
    icsFiles          \* reservations-to-ical.js: the content generated by each run so far

vars == <<process, cfg, pc, exitCode, error, cookies, token, currentPage, totalPages,
          allReservations, returned, result, file, disk, loginOk, requests, served,
          firstResp, uniform, nonOk, lastList, delays, lastSet, prevSetCookies, postResp,
          loginPageResponse, tokenResp, inflight, sent, now, csvFiles, icsFiles>>

-----------------------------------------------------------------------------
(* Bounds of the environment *)

\* largest total a listing response reports
MaxTotal == 3
\* most records one listing response embeds
MaxPageLen == 2
\* most tokens of a login page
MaxHtmlLen == 5
\* most words of a command line
MaxArgs == 2
\* how far the clock advances between the runs of the exporters
MaxClock == 1
\* most runs of each exporter
MaxRuns == 2
MaxNameLen == 3

\* Page numbers from PageCap on are not told apart: every finite totalPages
\* the environment can cause is below PageCap.
PageCap == MaxTotal + 2
\* JavaScript's Infinity (JSON.parse of 1e999): above every page number.
Infinity == PageCap + 1
\* the request history keeps the first LogCap requests (more than any run
\* with finite page counts issues)
LogCap == MaxTotal + 4
\* a field the body does not carry
Absent == -1

-----------------------------------------------------------------------------
(* String helpers *)

RECURSIVE IndexOf(_, _, _)
\* least i >= from with s[i] = ch, or 0
IndexOf(s, ch, from) ==
    IF from > Len(s) THEN 0
    ELSE IF s[from] = ch THEN from
    ELSE IndexOf(s, ch, from + 1)

\* s.split(ch)[0]
SplitFirst(s, ch) ==
    LET i == IndexOf(s, ch, 1)
    IN  IF i = 0 THEN s ELSE SubSeq(s, 1, i - 1)

\* c.startsWith(p)
StartsWith(c, p) == Len(p) <= Len(c) /\ SubSeq(c, 1, Len(p)) = p

\* s.includes(sub)
Includes(s, sub) ==
    \E i \in 1..(Len(s) + 1) :
        i + Len(sub) - 1 <= Len(s) /\ SubSeq(s, i, i + Len(sub) - 1) = sub

-----------------------------------------------------------------------------
(* TrackHSClient.makeRequest: the cookie jar *)

\* const cookieName = cookie.split("=")[0]
CookieName(cookie) == SplitFirst(cookie, "=")

\* cookie.split(";")[0]
CookiePair(cookie) == SplitFirst(cookie, ";")

\* (c) => !c.startsWith(cookieName)
KeepCookie(c, cookieName) == ~StartsWith(c, cookieName)

\* the body of setCookies.forEach: filter the jar, then push the pair
StoreCookie(jar, cookie) ==
    Append(SelectSeq(jar, LAMBDA c : KeepCookie(c, CookieName(cookie))),
           CookiePair(cookie))

RECURSIVE StoreCookies(_, _)
\* if (setCookies) setCookies.forEach(...); an absent header is <<>>
StoreCookies(jar, setCookies) ==
    IF setCookies = <<>> THEN jar
    ELSE StoreCookies(StoreCookie(jar, Head(setCookies)), Tail(setCookies))

-----------------------------------------------------------------------------
(* TrackHSClient.login / getApiToken: what they accept *)

\* A login page is a sequence of tokens <<text, value>>: the opening of an
\* input tag, the end of a tag, and attributes, written with white space
\* between them.
T_input == <<"<input", "">>
T_gt == <<">", "">>
T_type == <<"type", "hidden">>
T_name == <<"name", "security">>
T_id == <<"id", "security">>
T_value(v) == <<"value", v>>

\* <input
IsInput(t) == t[1] = "<input"
\* name=["']security["']
NamesSecurity(t) == t[1] = "name" /\ t[2] = "security"
\* security["']
EndsSecurity(t) == t[2] = "security"
\* value=["']([^"']+)["']: the captured value has at least one character
HasValue(t) == t[1] = "value" /\ t[2] # ""
\* [^>]* spans the tokens a..b
NoGt(html, a, b) == \A k \in a..b : html[k][1] # ">"

Least(S) == CHOOSE x \in S : \A y \in S : x <= y
Greatest(S) == CHOOSE x \in S : \A y \in S : y <= x

\* where [^>]*value=["']([^"']+)["'] can end when it starts after token j
ValuesAfter(html, j) ==
    {k \in (j + 1)..Len(html) : HasValue(html[k]) /\ NoGt(html, j + 1, k - 1)}

\* where [^>]*name=["']security["'] can end when it starts after token j
NamesAfter(html, j) ==
    {k \in (j + 1)..Len(html) : NamesSecurity(html[k]) /\ NoGt(html, j + 1, k - 1)}

\* html.match(pattern)[1], "" when there is no match.  A match starts at
\* the leftmost token it can, and each [^>]* takes as much as it can.

\* /<input[^>]*name=["']security["'][^>]*value=["']([^"']+)["']/i
Pattern1(html) ==
    LET Mids(i) == {j \in NamesAfter(html, i) : ValuesAfter(html, j) # {}}
        Starts == {i \in 1..Len(html) : IsInput(html[i]) /\ Mids(i) # {}}
    IN  IF Starts = {} THEN ""
        ELSE html[Greatest(ValuesAfter(html, Greatest(Mids(Least(Starts)))))][2]

\* /<input[^>]*value=["']([^"']+)["'][^>]*name=["']security["']/i
Pattern2(html) ==
    LET Mids(i) == {j \in ValuesAfter(html, i) : NamesAfter(html, j) # {}}
        Starts == {i \in 1..Len(html) : IsInput(html[i]) /\ Mids(i) # {}}
    IN  IF Starts = {} THEN ""
        ELSE html[Greatest(Mids(Least(Starts)))][2]

\* /name=["']security["'][^>]*value=["']([^"']+)["']/i
Pattern3(html) ==
    LET Starts == {j \in 1..Len(html) :
                      NamesSecurity(html[j]) /\ ValuesAfter(html, j) # {}}
    IN  IF Starts = {} THEN ""
        ELSE html[Greatest(ValuesAfter(html, Least(Starts)))][2]

\* /security["']\s+value=["']([^"']+)["']/i
Pattern4(html) ==
    LET Starts == {j \in 1..(Len(html) - 1) :
                      EndsSecurity(html[j]) /\ HasValue(html[j + 1])}
    IN  IF Starts = {} THEN ""
        ELSE html[Least(Starts) + 1][2]

\* const patterns = [...]: what each candidate captures on html, in order
SecurityPatterns(html) ==
    <<Pattern1(html), Pattern2(html), Pattern3(html), Pattern4(html)>>

\* mutant: the value-before-name pattern is tried first
extractSecurityToken_ValueFirst(html) ==
    LET hits == SelectSeq(<<Pattern2(html), Pattern1(html), Pattern3(html),
                            Pattern4(html)>>, LAMBDA m : m # "")
    IN  IF hits = <<>> THEN "" ELSE Head(hits)

\* for (const pattern of patterns) { if (match && match[1]) return match[1] }
\* "" stands for the throw after the loop
extractSecurityToken(html) ==
    LET hits == SelectSeq(SecurityPatterns(html), LAMBDA m : m # "")
    IN  IF hits = <<>> THEN "" ELSE Head(hits)

DashboardPath == <<"/", "owner", "/", "dashboard">>
OwnerPath == <<"/", "owner", "/">>

\* loginResponse.status === 302 && location &&
\*   (location.includes("/owner/dashboard") || location.includes("/owner/"))
LoginRedirectOk(status, location) ==
    /\ status = 302
    /\ location # <<>>
    /\ (Includes(location, DashboardPath) \/ Includes(location, OwnerPath))

\* status 200, a string body, and one of the three markers in it
LooksLikeLoginPage(status, body) ==
    /\ status = 200
    /\ body.kind = "text"
    /\ \E w \in {"Invalid", "incorrect", "login"} : Includes(body.text, <<w>>)

\* mutant: the success flag and the token are not checked
TokenBodyOk_Always(body) == TRUE

\* !(!response.data.success || !response.data.token)
TokenBodyOk(body) == body.success /\ body.token # ""

\* mutant: the status is not checked
StatusOk_Always(status) == TRUE

\* response.status !== 200 throws (login page, getApiToken)
StatusOk(status) == status = 200

-----------------------------------------------------------------------------
(* TrackHSClient.fetchReservations / fetchAllReservations *)

\* mutant: the status is not checked
ListingStatusOk_Always(status) == TRUE

\* fetchReservations: response.status !== 200 throws
ListingStatusOk(status) == status = 200

\* JavaScript truthiness of a number field (absent, and 0, are falsy)
Truthy(n) == n # Absent /\ n # 0

\* mutant: Math.floor in place of Math.ceil
CeilDiv_Floor(total, size) ==
    IF total = Infinity THEN Infinity ELSE total \div size

\* Math.ceil(total / size), for size > 0
CeilDiv(total, size) ==
    IF total = Infinity THEN Infinity ELSE (total + size - 1) \div size

\* mutant: a response without the two fields puts the page count back to 1
NewTotalPages_Reset(tp, total, size) ==
    IF Truthy(total) /\ Truthy(size) THEN CeilDiv(total, size) ELSE 1

\* if (data.total && data.size) totalPages = Math.ceil(data.total / data.size)
NewTotalPages(tp, total, size) ==
    IF Truthy(total) /\ Truthy(size) THEN CeilDiv(total, size) ELSE tp

\* mutant: the increment is lost
NextPage_Stuck(p) == p

\* currentPage++ (page numbers from PageCap on are one value)
NextPage(p) == IF p < PageCap THEN p + 1 ELSE p

\* mutant: the loop ends after every page
MorePages_Never(p, tp) == FALSE

\* currentPage <= totalPages
MorePages(p, tp) == p <= tp

\* Math.random(): a number from 0 up to, not including, 1, in thousandths
Randoms == {0, 500, 999}

\* mutant: the base of 500 ms is left out
Delay_Short(r) == (r * 500) \div 1000

\* const delay = 500 + Math.random() * 500, in whole milliseconds
Delay(r) == 500 + (r * 500) \div 1000

\* mutant: the records of a page are put in front of the accumulated ones
PushEmbedded_Unshift(all, body) ==
    IF body.hasEmbedded THEN body.records \o all ELSE all

\* if (data._embedded && data._embedded.reservations) allReservations.push(...)
PushEmbedded(all, body) ==
    IF body.hasEmbedded THEN all \o body.records ELSE all

-----------------------------------------------------------------------------
(* main(): the command line and the environment *)

Settings ==
    {"startDate", "endDate", "outputFile", "domain", "username", "password",
     "sessionCookie"}

\* the flag of a setting
Flag(s) ==
    CASE s = "startDate" -> <<"--start-date">>
      [] s = "endDate" -> <<"--end-date">>
      [] s = "outputFile" -> <<"--output">>
      [] s = "domain" -> <<"--domain">>
      [] s = "username" -> <<"--username">>
      [] s = "password" -> <<"--password">>
      [] s = "sessionCookie" -> <<"--session-cookie">>

\* `${currentYear}-01-01`, `${currentYear}-12-31`,
\* `reservations-${currentYear}.json`; undefined for the other settings
Default(s) ==
    CASE s = "startDate" -> <<"currentYear", "-01-01">>
      [] s = "endDate" -> <<"currentYear", "-12-31">>
      [] s = "outputFile" -> <<"reservations-", "currentYear", ".json">>
      [] OTHER -> <<>>

\* args.includes("--help") || args.includes("-h")
Help(args) == \E i \in 1..Len(args) : args[i] \in {<<"--help">>, <<"-h">>}

\* args[args.indexOf(flag) + 1]: indexOf is -1 when the flag is not there,
\* and an index past the end reads undefined
ArgAfter(args, flag) ==
    LET i == IndexOf(args, flag, 1) + 1
    IN  IF i <= Len(args) THEN args[i] ELSE <<>>

\* a || b
Or(a, b) == IF a # <<>> THEN a ELSE b

\* args[args.indexOf(flag) + 1] || process.env.TRACKHS_... || default
Setting(args, env, s) == Or(ArgAfter(args, Flag(s)), Or(env[s], Default(s)))

ParseArgs(args, env) == [s \in Settings |-> Setting(args, env, s)]

\* before main has parsed anything
NoSettings == [s \in Settings |-> <<>>]

-----------------------------------------------------------------------------
(* The environment: what the operator configures and what the server sends *)

\* --session-cookie "t=x"
SessionCookie == <<"t", "=", "x">>

\* process.env: the TRACKHS_* variable of each setting, and OUTPUT_DIR
\* (<<>>: not set)
Env(d, c, u, p) ==
    [startDate |-> <<>>, endDate |-> <<>>, outputFile |-> <<>>, domain |-> d,
     username |-> u, password |-> p, sessionCookie |-> c, outputDir |-> <<>>]
NoEnv == Env(<<>>, <<>>, <<>>, <<>>)
LoginEnv == Env(<<"acme">>, <<>>, <<"user">>, <<"pw">>)
FullEnv ==
    [startDate |-> <<"env-start">>, endDate |-> <<"env-end">>,
     outputFile |-> <<"env-out">>, domain |-> <<"acme">>, username |-> <<"user">>,
     password |-> <<"pw">>, sessionCookie |-> SessionCookie,
     outputDir |-> <<"/", "data">>]

\* no command line arguments, everything from the environment; credentials:
\* none, a username alone, or both (beside a session cookie: none or both)
Configs ==
    {[argv |-> <<>>, env |-> Env(d, <<>>, u[1], u[2])] :
        d \in {<<>>, <<"acme">>},
        u \in {<<<<>>, <<>>>>, <<<<"user">>, <<>>>>, <<<<"user">>, <<"pw">>>>}}
    \cup {[argv |-> <<>>, env |-> Env(d, SessionCookie, u[1], u[2])] :
            d \in {<<>>, <<"acme">>},
            u \in {<<<<>>, <<>>>>, <<<<"user">>, <<"pw">>>>}}

\* the words of a command line: the flags, and two values
Words ==
    {Flag(s) : s \in Settings} \cup {<<"--help">>, <<"v">>, <<"w">>}

\* every command line of at most n words
ArgLists(n) == UNION {[1..k -> Words] : k \in 0..n}

\* every setting given by its flag
FullCommandLine ==
    <<Flag("startDate"), <<"2026-02-01">>, Flag("endDate"), <<"2026-02-28">>,
      Flag("outputFile"), <<"feb.json">>, Flag("domain"), <<"acme">>,
      Flag("username"), <<"user">>, Flag("password"), <<"pw">>,
      Flag("sessionCookie"), SessionCookie>>

ManyConfigs ==
    [argv : ArgLists(MaxArgs) \cup {FullCommandLine}, env : {NoEnv, LoginEnv, FullEnv}]

\* Set-Cookie header values
C_s1 == <<"s", "=", "1">>
C_s2 == <<"s", "=", "2", ";", "p">>
C_se == <<"s", "e", "=", "1">>
C_flag == <<"e", ";", "p", "=", "1">>
CookieHeaders == {C_s1, C_s2, C_se, C_flag}

\* the set-cookie arrays of a response (<<>>: no Set-Cookie header)
FewSetCookies == {<<>>, <<C_s1>>}
ManySetCookies ==
    {<<>>} \cup {<<c>> : c \in CookieHeaders} \cup {<<C_se, C_s2>>, <<C_flag, C_s1>>}

\* how an awaited request settles: the connection fails (req "error", no
\* response seen), the body stream fails after the headers were handled, or
\* the response is delivered
Outcomes(SetCookies, Statuses, Bodies) ==
    {[net |-> "connError", setCookies |-> <<>>, status |-> 0, body |-> [kind |-> "none"]]}
    \cup {[net |-> "streamError", setCookies |-> sc, status |-> 0, body |-> [kind |-> "none"]] :
            sc \in SetCookies}
    \cup [net : {"ok"}, setCookies : SetCookies, status : Statuses, body : Bodies]

\* <input type="hidden" name="security" value="abc123">
SecurityInput == <<T_input, T_type, T_name, T_value("abc123"), T_gt>>
\* <input value="xyz" name="security">
ValueFirstInput == <<T_input, T_value("xyz"), T_name, T_gt>>
\* <input type="hidden">
OtherInput == <<T_input, T_type, T_gt>>

HtmlTokens ==
    {T_input, T_gt, T_type, T_name, T_id, T_value("abc123"), T_value("xyz"),
     T_value("")}

\* every page of at most n tokens
Htmls(n) == UNION {[1..k -> HtmlTokens] : k \in 0..n}

\* login page: an HTML text, or a body that parsed as JSON
TextBodies(Pages) == {[kind |-> "text", html |-> h] : h \in Pages}
LoginPageBodies ==
    TextBodies({SecurityInput, ValueFirstInput, OtherInput})
        \cup {[kind |-> "object", html |-> <<>>]}
AllLoginPageBodies ==
    TextBodies(Htmls(MaxHtmlLen)) \cup {[kind |-> "object", html |-> <<>>]}

Locations ==
    {<<>>, <<"/", "owner", "/", "dashboard", "/">>, <<"/", "owner", "/">>,
     <<"/", "login", "/">>}

LoginPostBodies ==
    {[kind |-> "text", text |-> <<"Invalid", "password">>],
     [kind |-> "text", text |-> <<"welcome">>],
     [kind |-> "object", text |-> <<>>]}

TokenBodies ==
    [kind : {"object"}, success : BOOLEAN, token : {"", "tok1"}]
    \cup {[kind |-> "text", success |-> FALSE, token |-> ""],
          [kind |-> "null", success |-> FALSE, token |-> ""]}

\* the k records page p embeds: record <<p, i>> is the i-th reservation of
\* page p in the server's sort order; the server lists them in that order
\* or in the reverse one
PageRecords(p, k, order) ==
    [i \in 1..k |-> IF order = "asc" THEN <<p, i>> ELSE <<p, k + 1 - i>>]

ObjectBodies(p, Totals, Sizes, Lens) ==
    {[kind |-> "object", hasEmbedded |-> TRUE, records |-> PageRecords(p, k, o),
      total |-> t, size |-> z] :
        k \in Lens, o \in {"asc", "desc"}, t \in Totals, z \in Sizes}
    \cup {[kind |-> "object", hasEmbedded |-> FALSE, records |-> <<>>,
           total |-> t, size |-> z] : t \in Totals, z \in Sizes}

\* an element null of the embedded array
NullRecord == <<0, 0>>

\* a body whose embedded array holds null in place of a reservation
NullRecordBodies ==
    {[kind |-> "object", hasEmbedded |-> TRUE, records |-> <<NullRecord>>,
      total |-> Absent, size |-> Absent]}

\* a body that is not the expected object: raw text, or the JSON value null
OddBodies ==
    {[kind |-> k, hasEmbedded |-> FALSE, records |-> <<>>,
      total |-> Absent, size |-> Absent] : k \in {"text", "null"}}

\* listing bodies for page p
PagedBodies(p) ==
    ObjectBodies(p, {Absent} \cup 0..MaxTotal, {Absent, 1, 2}, {0, MaxPageLen})
        \cup NullRecordBodies \cup OddBodies
PlainBodies(p) ==
    ObjectBodies(p, {Absent, 2}, {1}, {0}) \cup OddBodies
EndlessBodies(p) ==
    ObjectBodies(p, {Absent, Infinity} \cup 0..MaxTotal, {Absent, 1}, {0})
        \cup OddBodies

-----------------------------------------------------------------------------
(* Initial state *)

InitWith(Procs) ==
    /\ process \in Procs
    /\ cfg = NoSettings
    /\ pc = "main"
    /\ exitCode = -1
    /\ error = ""
    /\ cookies = <<>>
    /\ token = ""
    /\ currentPage = 1
    /\ totalPages = 1
    /\ allReservations = <<>>
    /\ returned = FALSE
    /\ result = <<>>
    /\ file = <<"untouched">>
    /\ disk = [dirs |-> {}, files |-> {}]
    /\ loginOk = FALSE
    /\ requests = <<>>
    /\ served = <<>>
    /\ firstResp = <<>>
    /\ uniform = TRUE
    /\ nonOk = FALSE
    /\ lastList = <<>>
    /\ delays = <<>>
    /\ lastSet = {}
    /\ prevSetCookies = <<>>
    /\ postResp = <<>>
    /\ loginPageResponse = <<>>
    /\ tokenResp = <<>>
    /\ inflight = 0
    /\ sent = <<>>
    /\ now = 0
    /\ csvFiles = <<>>
    /\ icsFiles = <<>>

Init == InitWith(Configs)
ConfigInit == InitWith(ManyConfigs)

-----------------------------------------------------------------------------
(* Steps shared by the handlers *)

\* mutant: the header is not sent
Authorization_None(tok) == ""

\* if (this.token) defaultHeaders["authorization"] = `Bearer ${this.token}`
\* ("": no authorization header)
Authorization(tok) == tok

\* main is suspended on the promise of a makeRequest call
Awaiting(p) == p \in {"loginGet", "loginPost", "tokenGet", "listGet"}

RECURSIVE JoinCookies(_)
\* this.cookies.join("; ")
JoinCookies(jar) ==
    IF Len(jar) = 0 THEN <<>>
    ELSE IF Len(jar) = 1 THEN jar[1]
    ELSE jar[1] \o <<"; ">> \o JoinCookies(Tail(jar))

\* mutant: the cookie header is never added
Headers_NoCookie(jar, tok) ==
    [cookie |-> <<>>,
     authorization |->
        IF Authorization(tok) # "" THEN <<"Bearer ", Authorization(tok)>> ELSE <<>>]

\* the two headers makeRequest adds to the default ones (<<>>: not sent);
\* no caller passes a cookie or an authorization header of its own
Headers(jar, tok) ==
    [cookie |-> IF Len(jar) > 0 THEN <<JoinCookies(jar)>> ELSE <<>>,
     authorization |->
        IF Authorization(tok) # "" THEN <<"Bearer ", Authorization(tok)>> ELSE <<>>]

\* the headers of the request main is suspended on, if it is
Sent(p, jar, tok) == IF Awaiting(p) THEN <<Headers(jar, tok)>> ELSE <<>>

\* the request history: what was requested, the form posted, and the
\* bearer token of the authorization header makeRequest added
Log(reqs, kind, page, form, tok) ==
    IF Len(reqs) < LogCap
    THEN Append(reqs, [kind |-> kind, page |-> page, form |-> form,
                       auth |-> Authorization(tok)])
    ELSE reqs

RECURSIVE NoteCookies(_, _)
\* history of the Set-Cookie headers seen: per name, the latest pair
NoteCookies(seen, setCookies) ==
    IF setCookies = <<>> THEN seen
    ELSE LET c == Head(setCookies)
             n == SplitFirst(c, "=")
         IN  NoteCookies({e \in seen : e[1] # n} \cup {<<n, SplitFirst(c, ";")>>},
                         Tail(setCookies))

\* a throw that reaches main's catch: console.error, process.exit(1)
Fail(msg) ==
    /\ pc' = "done"
    /\ exitCode' = 1
    /\ error' = msg

\* the response callback of makeRequest stores the cookies before the body
\* is read; a connection error comes before any response
Receive(o) ==
    /\ cookies' = IF o.net = "connError" THEN cookies
                  ELSE StoreCookies(cookies, o.setCookies)
    /\ lastSet' = IF o.net = "connError" THEN lastSet
                  ELSE NoteCookies(lastSet, o.setCookies)
    /\ prevSetCookies' = IF o.net = "connError" THEN prevSetCookies
                         ELSE <<o.setCookies>>

\* what makeRequest rejects with, "" when it resolves
Rejection(o) ==
    CASE o.net = "connError" -> "network error"
      [] o.net = "streamError" -> "decode error"
      [] OTHER -> ""

\* mutant: the caller goes on while the request is still out
Settle_NoWait(n) == n

\* resolve / reject of makeRequest's promise: the request is over
Settle(n) == n - 1

\* https.request(...); req.end()
Issue(n) == n + 1

pageVars == <<currentPage, totalPages, allReservations, returned, result>>
listHist == <<served, firstResp, uniform, nonOk, delays>>
exportVars == <<now, csvFiles, icsFiles>>

-----------------------------------------------------------------------------
(* main(): construction and the choice of authentication *)

\* mutant: the run goes on as if a session cookie had been supplied
AuthMode_SkipsAuth(c) == "cookie"

\* mutant: credentials are tried before the session cookie
AuthMode_PrefersLogin(c) ==
    IF c.username # <<>> /\ c.password # <<>> THEN "login"
    ELSE IF c.sessionCookie # <<>> THEN "cookie"
    ELSE "none"

\* if (sessionCookie) ... else if (username && password) ... else ...
AuthMode(c) ==
    IF c.sessionCookie # <<>> THEN "cookie"
    ELSE IF c.username # <<>> /\ c.password # <<>> THEN "login"
    ELSE "none"

MainStart ==
    /\ pc = "main"
    /\ IF Help(process.argv)
       THEN \* the usage is printed; process.exit(0)
            /\ pc' = "done"
            /\ exitCode' = 0
            /\ UNCHANGED <<cfg, error, cookies, requests>>
       ELSE LET c == ParseArgs(process.argv, process.env)
            IN  /\ cfg' = c
                /\ IF c.domain = <<>>
                   THEN \* the constructor throws
                        /\ Fail("domain required")
                        /\ UNCHANGED <<cookies, requests>>
                   ELSE IF AuthMode(c) = "cookie"
                   THEN \* client.cookies = [sessionCookie]; getApiToken issues its GET
                        /\ cookies' = <<c.sessionCookie>>
                        /\ requests' = Log(requests, "token", 0, <<>>, token)
                        /\ pc' = "tokenGet"
                        /\ UNCHANGED <<exitCode, error>>
                   ELSE IF AuthMode(c) = "login"
                   THEN \* login issues the GET of the login page
                        /\ requests' = Log(requests, "loginGet", 0, <<>>, token)
                        /\ pc' = "loginGet"
                        /\ UNCHANGED <<exitCode, error, cookies>>
                   ELSE \* process.exit(1)
                        /\ Fail("authentication required")
                        /\ UNCHANGED <<cookies, requests>>
    /\ inflight' = IF Awaiting(pc') THEN Issue(inflight) ELSE inflight
    /\ UNCHANGED <<process, token, pageVars, file, disk, loginOk, listHist, lastList, lastSet, prevSetCookies, postResp,
                   loginPageResponse, tokenResp, exportVars>>
    /\ sent' = Sent(pc', cookies', token')

-----------------------------------------------------------------------------
(* login(): the login page arrives *)

LoginPageResponse(SetCookies, Bodies) ==
    /\ pc = "loginGet"
    /\ \E o \in Outcomes(SetCookies, {200, 500}, Bodies) :
        /\ Receive(o)
        /\ IF Rejection(o) # ""
           THEN Fail(Rejection(o)) /\ UNCHANGED <<requests, loginPageResponse>>
           ELSE /\ loginPageResponse' = <<[status |-> o.status, body |-> o.body]>>
                /\ IF ~StatusOk(o.status)
                   THEN Fail("login page status") /\ UNCHANGED requests
                   ELSE IF o.body.kind # "text"
                   THEN \* html.match is not a function
                        Fail("TypeError") /\ UNCHANGED requests
                   ELSE IF extractSecurityToken(o.body.html) = ""
                   THEN Fail("security token not found") /\ UNCHANGED requests
                   ELSE /\ requests' = Log(requests, "loginPost", 0,
                                <<cfg.username, cfg.password,
                                  extractSecurityToken(o.body.html)>>, token)
                        /\ pc' = "loginPost"
                        /\ UNCHANGED <<exitCode, error>>
    \* the awaited request is over; the handler may issue the next one
    /\ inflight' = IF Awaiting(pc') THEN Issue(Settle(inflight)) ELSE Settle(inflight)
    /\ UNCHANGED <<process, cfg, token, pageVars, file, disk, loginOk, listHist, lastList, postResp,
                   tokenResp, exportVars>>
    /\ sent' = Sent(pc', cookies', token')

(* login(): the answer to the credentials POST arrives; on success login *)
(* returns true and getApiToken issues its GET                           *)

LoginPostResponse(SetCookies) ==
    /\ pc = "loginPost"
    /\ \E o \in Outcomes(SetCookies, {200, 301, 302, 500}, LoginPostBodies),
          location \in Locations :
        /\ Receive(o)
        /\ IF Rejection(o) # ""
           THEN Fail(Rejection(o)) /\ UNCHANGED <<requests, loginOk, postResp>>
           ELSE /\ postResp' = <<[status |-> o.status, location |-> location]>>
                /\ IF LoginRedirectOk(o.status, location)
                   THEN /\ loginOk' = TRUE
                        /\ requests' = Log(requests, "token", 0, <<>>, token)
                        /\ pc' = "tokenGet"
                        /\ UNCHANGED <<exitCode, error>>
                   ELSE IF LooksLikeLoginPage(o.status, o.body)
                   THEN Fail("invalid credentials") /\ UNCHANGED <<requests, loginOk>>
                   ELSE Fail("login status") /\ UNCHANGED <<requests, loginOk>>
    /\ loginPageResponse' = <<>>
    \* the awaited request is over; the handler may issue the next one
    /\ inflight' = IF Awaiting(pc') THEN Issue(Settle(inflight)) ELSE Settle(inflight)
    /\ UNCHANGED <<process, cfg, token, pageVars, file, disk, listHist, lastList, tokenResp, exportVars>>
    /\ sent' = Sent(pc', cookies', token')

-----------------------------------------------------------------------------
(* getApiToken(): the token response arrives; on success the token is    *)
(* stored and fetchAllReservations issues the request for page 1         *)

TokenResponse(SetCookies) ==
    /\ pc = "tokenGet"
    /\ \E o \in Outcomes(SetCookies, {200, 500}, TokenBodies) :
        /\ Receive(o)
        /\ IF Rejection(o) # ""
           THEN Fail(Rejection(o)) /\ UNCHANGED <<token, requests, pageVars, tokenResp>>
           ELSE /\ tokenResp' = <<[status |-> o.status, body |-> o.body]>>
                /\ IF ~StatusOk(o.status)
                   THEN Fail("token status") /\ UNCHANGED <<token, requests, pageVars>>
                   ELSE IF o.body.kind = "null"
                   THEN \* response.data.success on null
                        Fail("TypeError") /\ UNCHANGED <<token, requests, pageVars>>
                   ELSE IF ~TokenBodyOk(o.body)
                   THEN Fail("token missing") /\ UNCHANGED <<token, requests, pageVars>>
                   ELSE /\ token' = o.body.token
                        /\ allReservations' = <<>>
                        /\ currentPage' = 1
                        /\ totalPages' = 1
                        /\ requests' = Log(requests, "list", 1, <<>>, o.body.token)
                        /\ pc' = "listGet"
                        /\ UNCHANGED <<exitCode, error, returned, result>>
    \* the awaited request is over; the handler may issue the next one
    /\ inflight' = IF Awaiting(pc') THEN Issue(Settle(inflight)) ELSE Settle(inflight)
    /\ UNCHANGED <<process, cfg, file, disk, loginOk, listHist, lastList, postResp, loginPageResponse,
                   exportVars>>
    /\ sent' = Sent(pc', cookies', token')

-----------------------------------------------------------------------------
(* fetchAllReservations(): the response for currentPage arrives.  One    *)
(* turn of the do-while loop up to its sleep, or, when the loop ends,    *)
(* the return to main, which calls saveReservations (fs.mkdir).          *)

ListingResponse(SetCookies, Bodies, Rands) ==
    /\ pc = "listGet"
    /\ \E o \in Outcomes(SetCookies, {200, 500}, Bodies), r \in Rands :
        /\ Receive(o)
        /\ IF Rejection(o) # ""
           THEN Fail(Rejection(o)) /\ UNCHANGED <<pageVars, listHist, lastList>>
           ELSE /\ served' = served \o o.body.records
                /\ firstResp' =
                     IF firstResp = <<>>
                     THEN <<[status |-> o.status, total |-> o.body.total,
                             size |-> o.body.size]>>
                     ELSE firstResp
                /\ uniform' = (/\ uniform
                               /\ o.status = 200
                               /\ o.body.kind = "object"
                               /\ o.body.total = firstResp'[1].total
                               /\ o.body.size = firstResp'[1].size)
                /\ nonOk' = (nonOk \/ o.status # 200)
                /\ lastList' =
                     <<[page |-> currentPage, status |-> o.status,
                        kind |-> o.body.kind, hasEmbedded |-> o.body.hasEmbedded,
                        total |-> o.body.total, size |-> o.body.size]>>
                /\ IF ~ListingStatusOk(o.status)
                   THEN Fail("listing status") /\ UNCHANGED <<pageVars, delays>>
                   ELSE IF o.body.kind = "null"
                   THEN \* data._embedded on null
                        Fail("TypeError") /\ UNCHANGED <<pageVars, delays>>
                   ELSE LET all == PushEmbedded(allReservations, o.body)
                            tp == NewTotalPages(totalPages, o.body.total, o.body.size)
                            page == NextPage(currentPage)
                        IN  /\ allReservations' = all
                            /\ totalPages' = tp
                            /\ currentPage' = page
                            /\ IF MorePages(page, tp)
                               THEN \* await this.sleep(delay)
                                    /\ delays' = IF Len(delays) < PageCap
                                                  THEN Append(delays, Delay(r))
                                                  ELSE delays
                                    /\ pc' = "sleep"
                                    /\ UNCHANGED <<returned, result>>
                               ELSE /\ returned' = TRUE
                                    /\ result' = all
                                    /\ pc' = "mkdir"
                                    /\ UNCHANGED delays
                            /\ UNCHANGED <<exitCode, error>>
    \* the awaited request is over; the next one waits for the sleep
    /\ inflight' = Settle(inflight)
    /\ UNCHANGED <<process, cfg, token, file, disk, loginOk, requests, postResp, loginPageResponse,
                   tokenResp, exportVars>>
    /\ sent' = Sent(pc', cookies', token')

(* the delay between two pages is over: the loop condition holds and the *)
(* next turn issues the request for currentPage                          *)

SleepDone ==
    /\ pc = "sleep"
    /\ lastList' = <<>>
    /\ requests' = Log(requests, "list", currentPage, <<>>, token)
    /\ pc' = "listGet"
    /\ inflight' = Issue(inflight)
    /\ UNCHANGED <<process, cfg, exitCode, error, cookies, token, pageVars, file, disk, loginOk,
                   listHist, lastSet, prevSetCookies, postResp, loginPageResponse, tokenResp, exportVars>>
    /\ sent' = Sent(pc', cookies', token')

-----------------------------------------------------------------------------
(* saveReservations(): fs.mkdir, then fs.writeFile; then main prints the *)
(* summary and the process ends                                          *)

\* paths are sequences of components from the root; a file name, like
\* every string the code takes apart, is a sequence of tokens, "/" being
\* the separator
RECURSIVE Components(_)
\* the parts of a path string between its separators
Components(s) ==
    LET i == IndexOf(s, "/", 1)
    IN  IF i = 0 THEN <<s>>
        ELSE <<SubSeq(s, 1, i - 1)>> \o Components(SubSeq(s, i + 1, Len(s)))

\* the component "..", however the two dots are written
IsParent(c) == c \in {<<"..">>, <<".", ".">>}

RECURSIVE Normalize(_, _)
\* path.normalize below an absolute path: "" and "." are dropped, ".."
\* drops the component before it (the root is its own parent)
Normalize(dir, comps) ==
    IF comps = <<>> THEN dir
    ELSE LET c == Head(comps)
         IN  IF c = <<>> \/ c = <<".">> THEN Normalize(dir, Tail(comps))
             ELSE IF IsParent(c)
             THEN Normalize(SubSeq(dir, 1, Len(dir) - 1), Tail(comps))
             ELSE Normalize(Append(dir, c), Tail(comps))

\* process.cwd()
Cwd == <<<<"app">>>>

\* path.resolve(p): an absolute path as it is, a relative one below the
\* working directory
resolve(p) ==
    IF p # <<>> /\ p[1] = "/" THEN Normalize(<<>>, Components(p))
    ELSE Normalize(Cwd, Components(p))

\* path.join(dir, name) for an absolute, normalised dir
join(dir, name) == Normalize(dir, Components(name))

RECURSIVE StripSlashes(_)
StripSlashes(s) ==
    IF s # <<>> /\ s[Len(s)] = "/" THEN StripSlashes(SubSeq(s, 1, Len(s) - 1))
    ELSE s

\* mutant: the file name is used as it was given
basename_Whole(name) == name

\* path.basename(name): what follows the last separator, trailing
\* separators aside
basename(name) ==
    LET cs == Components(StripSlashes(name))
    IN  cs[Len(cs)]

\* path.resolve(process.env.OUTPUT_DIR || "output")
OutputDir(env) == resolve(Or(env.outputDir, <<"output">>))

\* path.join(outputDir, path.basename(filename))
FilePath(env, filename) == join(OutputDir(env), basename(filename))

\* after mkdir -p of dir, path is a directory: dir itself or one above it
IsDirectory(path, dir) ==
    Len(path) <= Len(dir) /\ SubSeq(dir, 1, Len(path)) = path

\* reservations.reduce((acc, res) => ... res.nights ... res.ownerBreakdown
\* ...) throws a TypeError on an element that is null
SummaryThrows(reservations) ==
    \E i \in 1..Len(reservations) : reservations[i] = NullRecord

MkdirDone ==
    /\ pc = "mkdir"
    /\ lastList' = <<>>
    /\ \E ok \in BOOLEAN :
        IF ok
        THEN /\ disk' = [disk EXCEPT !.dirs = @ \cup {OutputDir(process.env)}]
             /\ pc' = "writeFile"
             /\ UNCHANGED <<exitCode, error>>
        ELSE Fail("mkdir failed") /\ UNCHANGED disk
    /\ UNCHANGED <<process, cfg, cookies, token, pageVars, file, loginOk, requests,
                   listHist, lastSet, prevSetCookies, postResp, loginPageResponse, tokenResp, inflight,
                   sent, exportVars>>

WriteDone ==
    /\ pc = "writeFile"
    /\ LET filepath == FilePath(process.env, cfg.outputFile)
           \* writeFile on a directory fails with EISDIR and writes nothing
           Can == IF IsDirectory(filepath, OutputDir(process.env))
                  THEN {FALSE} ELSE BOOLEAN
       IN  \E ok \in Can, touched \in Can :
        IF ok
        THEN /\ file' = <<"json", result>>
             /\ disk' = [disk EXCEPT !.files = @ \cup {filepath}]
             /\ IF SummaryThrows(result)
                THEN Fail("summary TypeError")
                ELSE \* main returns and the process ends
                     /\ pc' = "done"
                     /\ exitCode' = 0
                     /\ UNCHANGED error
        ELSE \* a failed write may leave a truncated file behind
             /\ file' = IF touched THEN <<"partial">> ELSE file
             /\ disk' = IF touched THEN [disk EXCEPT !.files = @ \cup {filepath}]
                        ELSE disk
             /\ Fail("write failed")
    /\ UNCHANGED <<process, cfg, cookies, token, pageVars, loginOk, requests,
                   listHist, lastList, lastSet, prevSetCookies, postResp, loginPageResponse, tokenResp, inflight,
                   sent, exportVars>>

-----------------------------------------------------------------------------
(* The exporters: reservations-to-csv.js and reservations-to-ical.js read  *)
(* the JSON file the fetch script wrote                                    *)

fetchVars ==
    <<process, cfg, pc, exitCode, error, cookies, token, pageVars, file, disk, loginOk,
      requests, listHist, lastList, lastSet, prevSetCookies, postResp, loginPageResponse, tokenResp,
      inflight, sent>>

\* one row of exportToCsv: fourteen fields, each computed from the fields of
\* the reservation alone (dates are formatted with dayjs)
CsvRow(res) == <<"row", res>>

\* exportToCsv: the header line, then one row per reservation, in order
exportToCsv(reservations) ==
    <<"header">> \o [i \in 1..Len(reservations) |-> CsvRow(reservations[i])]

\* calendar.createEvent({id, start, end, summary, description, location,
\* status, transparency}): no stamp is given, and the event is created with
\* the time of the call as its DTSTAMP
createEvent(res, clock) == [uid |-> res, event |-> res, stamp |-> clock]

\* generateICalFile: the calendar, then one event per reservation, in order
generateICalFile(reservations, clock) ==
    <<"VCALENDAR">> \o
        [i \in 1..Len(reservations) |-> createEvent(reservations[i], clock)]

\* time passes (followed once there is a file to export)
Tick ==
    /\ file[1] = "json"
    /\ now < MaxClock
    /\ now' = now + 1
    /\ UNCHANGED <<fetchVars, csvFiles, icsFiles>>

\* a run of reservations-to-csv.js on the file
CsvExport ==
    /\ file[1] = "json"
    /\ Len(csvFiles) < MaxRuns
    /\ csvFiles' = Append(csvFiles, exportToCsv(file[2]))
    /\ UNCHANGED <<fetchVars, now, icsFiles>>

\* a run of reservations-to-ical.js on the file
ICalExport ==
    /\ file[1] = "json"
    /\ Len(icsFiles) < MaxRuns
    /\ icsFiles' = Append(icsFiles, generateICalFile(file[2], now))
    /\ UNCHANGED <<fetchVars, now, csvFiles>>

-----------------------------------------------------------------------------
(* Specifications *)

\* the run against a server whose listing pages vary
Next ==
    \/ MainStart
    \/ LoginPageResponse(FewSetCookies, LoginPageBodies)
    \/ LoginPostResponse(FewSetCookies)
    \/ TokenResponse(FewSetCookies)
    \/ ListingResponse({<<>>}, PagedBodies(currentPage), {0})
    \/ SleepDone
    \/ MkdirDone
    \/ WriteDone

Spec == Init /\ [][Next]_vars

\* the run against a server whose Set-Cookie headers vary
CookieNext ==
    \/ MainStart
    \/ LoginPageResponse(ManySetCookies, LoginPageBodies)
    \/ LoginPostResponse(ManySetCookies)
    \/ TokenResponse(ManySetCookies)
    \/ ListingResponse(ManySetCookies, PlainBodies(currentPage), {0})
    \/ SleepDone
    \/ MkdirDone
    \/ WriteDone

CookieSpec == Init /\ [][CookieNext]_vars

\* the run against a server that may report an infinite total; every
\* awaited operation settles, so every enabled step is eventually taken
LiveNext ==
    \/ MainStart
    \/ LoginPageResponse({<<>>}, LoginPageBodies)
    \/ LoginPostResponse({<<>>})
    \/ TokenResponse({<<>>})
    \/ ListingResponse({<<>>}, EndlessBodies(currentPage), {0})
    \/ SleepDone
    \/ MkdirDone
    \/ WriteDone

LiveSpec == Init /\ [][LiveNext]_vars /\ WF_vars(LiveNext)

\* the run against a server whose login page varies
LoginNext ==
    \/ MainStart
    \/ LoginPageResponse({<<>>}, AllLoginPageBodies)
    \/ LoginPostResponse({<<>>})
    \/ TokenResponse({<<>>})
    \/ ListingResponse({<<>>}, PlainBodies(currentPage), {0})
    \/ SleepDone
    \/ MkdirDone
    \/ WriteDone

LoginSpec == Init /\ [][LoginNext]_vars

\* the run for every short command line
ConfigNext ==
    \/ MainStart
    \/ LoginPageResponse({<<>>}, LoginPageBodies)
    \/ LoginPostResponse({<<>>})
    \/ TokenResponse({<<>>})
    \/ ListingResponse({<<>>}, PlainBodies(currentPage), {0})
    \/ SleepDone
    \/ MkdirDone
    \/ WriteDone

ConfigSpec == ConfigInit /\ [][ConfigNext]_vars

\* listing bodies for page p: one reservation, or none
ExportBodies(p) ==
    ObjectBodies(p, {Absent, 2}, {1}, {0, 1}) \cup OddBodies

\* the run, and then the exporters on the file it wrote
ExportNext ==
    \/ MainStart
    \/ LoginPageResponse({<<>>}, LoginPageBodies)
    \/ LoginPostResponse({<<>>})
    \/ TokenResponse({<<>>})
    \/ ListingResponse({<<>>}, ExportBodies(currentPage), {0})
    \/ SleepDone
    \/ MkdirDone
    \/ WriteDone
    \/ Tick
    \/ CsvExport
    \/ ICalExport

ExportSpec == Init /\ [][ExportNext]_vars

\* listing bodies for page p: the counts vary, no records
PaceBodies(p) ==
    ObjectBodies(p, {Absent} \cup 0..MaxTotal, {Absent, 1}, {0}) \cup OddBodies

\* the run with every draw of Math.random
PaceNext ==
    \/ MainStart
    \/ LoginPageResponse({<<>>}, LoginPageBodies)
    \/ LoginPostResponse({<<>>})
    \/ TokenResponse({<<>>})
    \/ ListingResponse({<<>>}, PaceBodies(currentPage), Randoms)
    \/ SleepDone
    \/ MkdirDone
    \/ WriteDone

PaceSpec == Init /\ [][PaceNext]_vars

\* the tokens of an output file name, and every name of 1 to n tokens
NameTokens == {"a", ".", "..", "/"}
FileNames(n) == UNION {[1..k -> NameTokens] : k \in 1..n}

\* OUTPUT_DIR: not set, an absolute path, a path that leaves the working
\* directory
OutputDirs == {<<>>, <<"/", "data">>, <<"..", "/", "out">>}

\* a session cookie, and every TRACKHS_OUTPUT_FILE under every OUTPUT_DIR
SaveConfigs ==
    {[argv |-> <<>>,
      env |-> [Env(<<"acme">>, SessionCookie, <<>>, <<>>)
                  EXCEPT !.outputFile = f, !.outputDir = d]] :
        f \in FileNames(MaxNameLen), d \in OutputDirs}

SaveInit == InitWith(SaveConfigs)

\* the run with a session cookie, to the writing of the file
SaveNext ==
    \/ MainStart
    \/ TokenResponse({<<>>})
    \/ ListingResponse({<<>>}, PlainBodies(currentPage), {0})
    \/ SleepDone
    \/ MkdirDone
    \/ WriteDone

SaveSpec == SaveInit /\ [][SaveNext]_vars

-----------------------------------------------------------------------------
(* Properties *)

\* the listing requests issued so far, and their page numbers
ListRequests == SelectSeq(requests, LAMBDA r : r.kind = "list")
PagesRequested == [i \in 1..Len(ListRequests) |-> ListRequests[i].page]

\* the run started with an empty jar (no session cookie was installed)
JarStartedEmpty == cfg.sessionCookie = <<>>

\* C1: starting from an empty jar, for every cookie name that appeared in
\* a Set-Cookie header the jar holds the name=value pair of the most
\* recent Set-Cookie for that name; headers for other names never remove
\* or change it.
C1_LastWriteWins ==
    JarStartedEmpty =>
        \A e \in lastSet : \E i \in DOMAIN cookies : cookies[i] = e[2]

\* C2: in every reachable state of a client whose jar started empty, the
\* jar holds at most one entry per cookie name (the text before "=").
C2_UniqueNames ==
    JarStartedEmpty =>
        \A i, j \in DOMAIN cookies :
            SplitFirst(cookies[i], "=") = SplitFirst(cookies[j], "=") => i = j


\* the total and size of the first listing response
FirstTotal == firstResp[1].total
FirstSize == firstResp[1].size

\* the least n with n * size >= total
PagesFor(total, size) ==
    CHOOSE n \in 0..total : n * size >= total /\ (n = 0 \/ (n - 1) * size < total)

\* every listing response so far had status 200 and reported the same
\* total T > 0 and size S > 0
UniformListing ==
    /\ firstResp # <<>>
    /\ uniform
    /\ FirstTotal > 0
    /\ FirstSize > 0

\* C3: if every listing response has status 200 and reports the same total
\* T > 0 and size S > 0, the requests are for pages 1, 2, ... in order, never
\* more than ceil(T/S) of them, and when fetchAllReservations returns exactly
\* ceil(T/S) were issued and the result is the concatenation of the pages'
\* embedded records in page order, server order kept inside each page.
C3_UniformPaging ==
    UniformListing =>
        /\ PagesRequested = [i \in 1..Len(ListRequests) |-> i]
        /\ Len(ListRequests) <= PagesFor(FirstTotal, FirstSize)
        /\ returned =>
            /\ Len(ListRequests) = PagesFor(FirstTotal, FirstSize)
            /\ result = served

\* C3 witness: total 3, size 2: two pages were fetched and all their
\* records returned
C3_Witness ==
    /\ UniformListing
    /\ returned
    /\ FirstTotal = 3
    /\ FirstSize = 2
    /\ Len(ListRequests) = 2
    /\ Len(result) = 2 * MaxPageLen
    /\ result[1][2] > result[2][2]

\* C4: if the first listing response has status 200 and carries neither a
\* total nor a size field, fetchAllReservations issues exactly one listing
\* request and then returns.
C4_OneRequestThenReturns ==
    (/\ firstResp # <<>>
     /\ firstResp[1].status = 200
     /\ FirstTotal = Absent
     /\ FirstSize = Absent)
        => (returned /\ Len(ListRequests) = 1)


\* fetchAllReservations is running (a listing request or the delay is awaited)
InFetchAll == pc \in {"listGet", "sleep"}

\* C5 (as claimed): once fetchAllReservations starts it eventually returns
\* or fails, whatever totals and sizes the listing responses report.
C5_AlwaysEnds == InFetchAll ~> ~InFetchAll

\* C5 (amended): once fetchAllReservations starts it eventually returns or
\* fails, unless a response makes totalPages infinite (the page count the
\* responses report does not stay bounded).
C5_EndsWhenBounded == InFetchAll ~> (~InFetchAll \/ totalPages = Infinity)

\* C5 witness: fetchAllReservations returned after several pages whose
\* reported totals differed
C5_Witness ==
    /\ returned
    /\ ~uniform
    /\ ~nonOk
    /\ Len(ListRequests) >= 3


\* C6: if the listing response for any page has a status other than 200,
\* fetchAllReservations fails with an error and returns no records: what
\* earlier pages accumulated is not delivered to the caller.
C6_NoPartialDelivery ==
    nonOk =>
        /\ error # ""
        /\ exitCode = 1
        /\ ~returned
        /\ result = <<>>

\* C6 witness: a later page was refused after records had been accumulated
C6_Witness ==
    /\ nonOk
    /\ Len(ListRequests) >= 2
    /\ Len(allReservations) > 0
    /\ error = "listing status"

\* authentication completed: the session cookie was installed, or login
\* returned true
Authenticated ==
    \/ cfg.sessionCookie # <<>> /\ \E i \in DOMAIN cookies : cookies[i] = cfg.sessionCookie
    \/ loginOk

\* C7: the output file is written only in runs where authentication, token
\* acquisition and the whole pagination succeeded; a run in which one of
\* these stages fails (also on a page after the first) leaves the file
\* untouched.
C7_FileOnlyAfterSuccess ==
    /\ file # <<"untouched">> =>
          /\ Authenticated
          /\ token # ""
          /\ returned
          /\ ~nonOk
          /\ error \in {"", "write failed", "summary TypeError"}
    /\ file[1] = "json" => file[2] = result /\ result = allReservations
    /\ (exitCode = 1 /\ error \notin {"write failed", "summary TypeError"})
          => file = <<"untouched">>

\* C7 witness: the run failed on a page after the first and wrote nothing
C7_Witness ==
    /\ exitCode = 1
    /\ error \in {"listing status", "network error", "decode error", "TypeError"}
    /\ currentPage >= 2
    /\ Len(allReservations) > 0
    /\ file = <<"untouched">>

\* the place of a request's kind in the pipeline
Stage(kind) ==
    CASE kind = "loginGet" -> 1
      [] kind = "loginPost" -> 2
      [] kind = "token" -> 3
      [] kind = "list" -> 4

\* C8: the stages happen in the order authenticate, acquire token,
\* paginate, persist: a token request is issued only once authentication
\* has completed, a listing request only once getApiToken has stored a
\* token, and the file is written only once fetchAllReservations returned.
C8_StageOrder ==
    /\ \A i, j \in DOMAIN requests :
          i < j => Stage(requests[i].kind) <= Stage(requests[j].kind)
    /\ \A i \in DOMAIN requests :
          /\ requests[i].kind = "token" => Authenticated
          /\ requests[i].kind = "list" =>
                /\ token # ""
                /\ \E j \in 1..(i - 1) : requests[j].kind = "token"
    /\ returned => ListRequests # <<>>
    /\ pc \in {"mkdir", "writeFile"} => returned
    /\ file # <<"untouched">> => returned

\* C8 witness: a run through login that wrote its file
C8_Witness ==
    /\ exitCode = 0
    /\ loginOk
    /\ file[1] = "json"
    /\ Len(requests) >= 5

C10_SuccessOnlyOnDashboardRedirect ==
    postResp # <<>> =>
        LET toDashboard ==
                /\ postResp[1].status \in {301, 302}
                /\ Includes(postResp[1].location, DashboardPath)
        IN  /\ loginOk => toDashboard
            /\ ~toDashboard => (exitCode = 1 /\ error # "")
            /\ (postResp[1].status = 302 /\ toDashboard) => loginOk

-----------------------------------------------------------------------------
(* login() *)

LoginGets == SelectSeq(requests, LAMBDA r : r.kind = "loginGet")
LoginPosts == SelectSeq(requests, LAMBDA r : r.kind = "loginPost")

\* the login page arrived with status 200 and an HTML text as its body
LoginPageRead ==
    /\ loginPageResponse # <<>>
    /\ loginPageResponse[1].status = 200
    /\ loginPageResponse[1].body.kind = "text"

\* some pattern of extractSecurityToken matches the page that arrived
TokenOnPage ==
    \E i \in 1..4 : SecurityPatterns(loginPageResponse[1].body.html)[i] # ""

\* C11: login issues one GET of the login page and at most one POST; the
\* POST is issued only once the GET was answered with status 200 and a page
\* a security token was extracted from, and it carries the username, the
\* password and that token; when the status is not 200 or no token is
\* found, login fails and no POST is issued.
C11_LoginIsLinear ==
    /\ Len(LoginGets) <= 1
    /\ Len(LoginPosts) <= 1
    /\ (pc \in {"loginGet", "loginPost"} \/ loginOk \/ LoginPosts # <<>>)
          => Len(LoginGets) = 1
    /\ LoginPosts # <<>> =>
          /\ requests[1].kind = "loginGet"
          /\ requests[2].kind = "loginPost"
          /\ LoginPosts[1].form[1] = cfg.username
          /\ LoginPosts[1].form[2] = cfg.password
          /\ LoginPosts[1].form[3] # ""
    /\ pc = "loginPost" =>
          /\ LoginPageRead
          /\ TokenOnPage
          /\ LoginPosts[1].form[3] =
                extractSecurityToken(loginPageResponse[1].body.html)
    /\ (loginPageResponse # <<>> /\ ~(LoginPageRead /\ TokenOnPage)) =>
          /\ LoginPosts = <<>>
          /\ exitCode = 1
          /\ ~loginOk

\* the POST is out, carrying the token of the page that arrived
C11_Witness ==
    /\ pc = "loginPost"
    /\ loginPageResponse[1].body.html = SecurityInput
    /\ Len(LoginPosts) = 1
    /\ LoginPosts[1].form[3] = "abc123"
    /\ LoginPosts[1].form[1] = cfg.username

\* C12: extractSecurityToken returns what the first of its patterns, in
\* their order, that matches the page captures (abc123 for the input
\* <input type="hidden" name="security" value="abc123">), and it throws
\* exactly when no pattern matches.
C12_FirstMatchWins ==
    LoginPageRead =>
        LET html == loginPageResponse[1].body.html
            caps == SecurityPatterns(html)
        IN  /\ (\A i \in 1..4 : caps[i] = "")
                  <=> (error = "security token not found")
            /\ (\A i \in 1..4 : caps[i] = "") => LoginPosts = <<>>
            /\ \A i \in 1..4 :
                  (caps[i] # "" /\ \A j \in 1..(i - 1) : caps[j] = "")
                      => /\ LoginPosts # <<>>
                         /\ LoginPosts[1].form[3] = caps[i]
            /\ html = SecurityInput
                  => LoginPosts # <<>> /\ LoginPosts[1].form[3] = "abc123"

\* two patterns match with different captures, and the first one wins
C12_Witness ==
    /\ LoginPageRead
    /\ loginPageResponse[1].body.html =
          <<T_input, T_value("xyz"), T_name, T_value("abc123"), T_gt>>
    /\ Pattern1(loginPageResponse[1].body.html) = "abc123"
    /\ Pattern2(loginPageResponse[1].body.html) = "xyz"
    /\ LoginPosts # <<>>
    /\ LoginPosts[1].form[3] = "abc123"

-----------------------------------------------------------------------------
(* getApiToken() *)

\* the token response is one getApiToken accepts
TokenGranted ==
    /\ tokenResp # <<>>
    /\ tokenResp[1].status = 200
    /\ tokenResp[1].body.kind = "object"
    /\ tokenResp[1].body.success
    /\ tokenResp[1].body.token # ""

\* C13: getApiToken throws when the token response has a status other than
\* 200, a falsy success flag or no token; otherwise it stores the token of
\* the response in the client, and every request issued afterwards carries
\* that token.
C13_TokenStoredAndUsed ==
    /\ tokenResp = <<>> => token = "" /\ ListRequests = <<>>
    /\ (tokenResp # <<>> /\ ~TokenGranted) =>
          /\ exitCode = 1
          /\ error \in {"token status", "token missing", "TypeError"}
          /\ token = ""
          /\ ListRequests = <<>>
    /\ TokenGranted =>
          /\ token = tokenResp[1].body.token
          /\ error \notin {"token status", "token missing"}
          /\ ListRequests # <<>>
          /\ \A i \in 1..Len(requests) :
                requests[i].auth =
                    IF requests[i].kind = "list" THEN tokenResp[1].body.token ELSE ""

\* the token was granted and two listing requests carried it
C13_Witness ==
    /\ TokenGranted
    /\ Len(ListRequests) >= 2
    /\ \A i \in 1..Len(ListRequests) : ListRequests[i].auth = "tok1"

-----------------------------------------------------------------------------
(* main(): the settings *)

\* the word after the flag of setting s on the command line, <<>> when the
\* flag is not there or is the last word
FlagValue(s) ==
    LET i == IndexOf(process.argv, Flag(s), 1)
    IN  IF 0 < i /\ i < Len(process.argv) THEN process.argv[i + 1] ELSE <<>>

\* main went past the parsing of its arguments
Parsed == pc # "main" /\ ~Help(process.argv)

\* C14: when no domain is configured (no --domain on the command line and
\* no TRACKHS_DOMAIN in the environment), the run ends with exit status 1
\* without a network request and without touching the output file.
C14_NoDomainNoRun ==
    (Parsed /\ FlagValue("domain") = <<>> /\ process.env.domain = <<>>) =>
        /\ pc = "done"
        /\ exitCode = 1
        /\ requests = <<>>
        /\ file = <<"untouched">>

\* C15: each setting has the value that follows its flag on the command
\* line; without the flag, the value of its environment variable; without
\* that, its default.
C15_FlagEnvDefault ==
    Parsed =>
        \A s \in Settings :
            cfg[s] = IF FlagValue(s) # <<>> THEN FlagValue(s)
                     ELSE IF process.env[s] # <<>> THEN process.env[s]
                     ELSE Default(s)

-----------------------------------------------------------------------------
(* main(): the exit status *)

\* authentication, token acquisition, pagination and the write all succeeded
AllStagesSucceeded ==
    /\ Authenticated
    /\ TokenGranted
    /\ returned
    /\ file = <<"json", result>>

\* C16: the process ends with status 0 exactly when authentication, token
\* acquisition, pagination and the write of the file all succeeded, and
\* with a status other than 0 when one of them failed.
C16_ExitZeroIffAllStages ==
    pc = "done" =>
        /\ exitCode \in {0, 1}
        /\ exitCode = 0 <=> AllStagesSucceeded

-----------------------------------------------------------------------------
(* makeRequest: one request at a time *)

\* C17: at most one request is in flight at any moment: a request is issued
\* only when the one before it has settled and its response was processed,
\* and the delay between two pages runs with no request in flight.
C17_OneRequestInFlight ==
    /\ inflight \in {0, 1}
    /\ Awaiting(pc) <=> inflight = 1
    /\ pc = "sleep" => inflight = 0

\* the request for a second page is out, alone
C17_Witness ==
    /\ pc = "listGet"
    /\ Len(ListRequests) >= 2
    /\ inflight = 1

-----------------------------------------------------------------------------
(* The exporters *)

\* C20: two runs of the CSV exporter, and two runs of the iCal exporter, on
\* the same file produce the same content.
C20_ExportsRepeatable ==
    /\ \A i, j \in 1..Len(csvFiles) : csvFiles[i] = csvFiles[j]
    /\ \A i, j \in 1..Len(icsFiles) : icsFiles[i] = icsFiles[j]

-----------------------------------------------------------------------------
(* No retries *)

\* no endpoint and page is requested twice
NoRepeat ==
    \A i, j \in 1..Len(requests) :
        (requests[i].kind = requests[j].kind /\ requests[i].page = requests[j].page)
            => i = j

\* C18: no request is retried: once a request has failed (the connection or
\* the decoding failed, or the stage refused the response) the run is over
\* and issues no further request, and no endpoint and page is requested
\* more than once.
C18_NoRetry ==
    /\ [](NoRepeat /\ (exitCode = 1 => (pc = "done" /\ inflight = 0)))
    /\ [][exitCode = 1 => requests' = requests]_vars

\* the request for a later page failed after earlier requests had succeeded
C18_Witness ==
    /\ exitCode = 1
    /\ error \in {"network error", "decode error", "listing status"}
    /\ Len(ListRequests) >= 2
    /\ requests[Len(requests)].kind = "list"
    /\ requests[Len(requests)].page = currentPage

-----------------------------------------------------------------------------
(* The records *)

IsPrefix(a, b) == Len(a) <= Len(b) /\ SubSeq(b, 1, Len(a)) = a

\* C19: the records are passed through as the server sent them: the
\* accumulated sequence is always the records served so far, in order; the
\* sequence fetchAllReservations returns and the one written to the file are
\* the records served; and a step only appends to the accumulated sequence
\* and leaves the returned one alone.
C19_RecordsUntouched ==
    /\ [](/\ IsPrefix(allReservations, served)
          /\ returned => (result = served /\ result = allReservations)
          /\ file[1] = "json" => file[2] = served)
    /\ [][/\ IsPrefix(allReservations, allReservations')
          /\ returned => result' = result]_vars

\* the records of two pages went through to the file, in the order served
C19_Witness ==
    /\ file[1] = "json"
    /\ Len(ListRequests) >= 2
    /\ Len(file[2]) > MaxPageLen
    /\ file[2] = served

-----------------------------------------------------------------------------
(* The page count *)

\* the loop has just processed a listing response: status 200 and a body
\* that is an object
Processed == lastList # <<>> /\ lastList[1].status = 200 /\ lastList[1].kind = "object"

\* C21: after processing any listing response, first or later, that reports
\* total and size, totalPages equals ceil(total / size) of that response,
\* also when the reported total is 0 or smaller than on an earlier page
C21_PageCountFollowsResponse ==
    (Processed /\ lastList[1].total # Absent /\ lastList[1].size # Absent)
        => totalPages = CeilDiv(lastList[1].total, lastList[1].size)

\* the response for currentPage is processed in this step, and it has
\* neither total nor size
OmitsCounts ==
    /\ pc = "listGet"
    /\ lastList' # <<>>
    /\ lastList'[1].page = currentPage
    /\ lastList'[1].total = Absent
    /\ lastList'[1].size = Absent

\* C22: processing a listing response that omits total and size leaves
\* totalPages as it was (1 before any response) on any page of the run, so
\* whether a further page is requested is decided by the page count of the
\* last response that reported them
C22_OmittedCountsKeepPageCount ==
    /\ [](firstResp = <<>> => totalPages = 1)
    /\ [][OmitsCounts =>
            /\ totalPages' = totalPages
            /\ pc' = "sleep" <=>
                  (/\ lastList'[1].status = 200
                   /\ lastList'[1].kind # "null"
                   /\ currentPage + 1 <= totalPages)]_vars

\* page 1 reported three pages, page 2 reports nothing: page 3 is awaited
C22_Witness ==
    /\ lastList # <<>>
    /\ lastList[1].page = 2
    /\ lastList[1].kind = "object"
    /\ lastList[1].total = Absent
    /\ lastList[1].size = Absent
    /\ totalPages = 3
    /\ pc = "sleep"

\* the response for page 1 has just been processed and its body has no
\* _embedded field
FirstWithoutEmbedded ==
    /\ lastList # <<>>
    /\ lastList[1].page = 1
    /\ lastList[1].status = 200
    /\ lastList[1].kind # "null"
    /\ ~lastList[1].hasEmbedded

ReportsMorePages(r) ==
    /\ r.total \notin {Absent, 0}
    /\ r.size \notin {Absent, 0}
    /\ r.total > r.size

-----------------------------------------------------------------------------
(* The pace of the listing requests *)

\* C24: a delay occurs exactly between two consecutive listing requests:
\* after a page is processed a delay of at least 500 ms and at most 1000 ms
\* is awaited if and only if another page will be requested, so n requests
\* come with n - 1 delays, none before the first request and none after
\* the last page
C24_DelayBetweenPages ==
    /\ [](/\ \A i \in 1..Len(delays) : delays[i] >= 500 /\ delays[i] <= 1000
          /\ Len(ListRequests) = 0 => delays = <<>>
          /\ Len(ListRequests) > 0 =>
                Len(delays) = Len(ListRequests) - (IF pc = "sleep" THEN 0 ELSE 1))
    /\ [][/\ pc = "listGet" => (delays' # delays <=> pc' = "sleep")
          /\ pc = "sleep" =>
                /\ delays' = delays
                /\ pc' = "listGet"
                /\ Len(requests') = Len(requests) + 1
                /\ requests'[Len(requests')].kind = "list"
                /\ requests'[Len(requests')].page = currentPage]_vars

\* three pages were requested, with two delays that differ, and the run is
\* over
C24_Witness ==
    /\ Len(ListRequests) = 3
    /\ Len(delays) = 2
    /\ delays[1] # delays[2]
    /\ returned
    /\ pc = "done"

-----------------------------------------------------------------------------
(* The jar under repeated headers *)

\* C25: the jar update is idempotent: handling a response whose Set-Cookie
\* headers are those of the response handled just before leaves the jar,
\* entries and order, exactly as it was
C25_JarUpdateIdempotent ==
    [][(Awaiting(pc) /\ prevSetCookies # <<>> /\ prevSetCookies' = prevSetCookies)
          => cookies' = cookies]_vars

-----------------------------------------------------------------------------
(* The headers of a request *)

RECURSIVE SplitCookies(_)
\* the cookies a Cookie header lists, in order: the parts between the "; "
\* separators
SplitCookies(h) ==
    LET i == IndexOf(h, "; ", 1)
    IN  IF i = 0 THEN <<h>>
        ELSE <<SubSeq(h, 1, i - 1)>> \o SplitCookies(SubSeq(h, i + 1, Len(h)))

\* C26: a request issued while the jar holds a cookie carries a Cookie
\* header listing all cookies of the jar, and one issued while a token is
\* held carries Authorization: Bearer <that token>; with an empty jar there
\* is no Cookie header and with no token no Authorization header
C26_HeadersFollowJarAndToken ==
    /\ Awaiting(pc) <=> sent # <<>>
    /\ sent # <<>> =>
        /\ IF cookies # <<>>
           THEN sent[1].cookie # <<>> /\ SplitCookies(sent[1].cookie[1]) = cookies
           ELSE sent[1].cookie = <<>>
        /\ IF token # ""
           THEN sent[1].authorization = <<"Bearer ", token>>
           ELSE sent[1].authorization = <<>>

\* a listing request goes out with two cookies in the jar and a token
C26_Witness ==
    /\ pc = "listGet"
    /\ sent # <<>>
    /\ Len(cookies) = 2
    /\ token # ""

-----------------------------------------------------------------------------
(* The token of the listing requests *)

\* C27: every listing request of a run is sent with a bearer token that the
\* token endpoint returned in that run; a getApiToken that fails leaves
\* the held token as it was (none, in a fresh client) and the run then
\* issues no listing request at all
C27_ListingNeedsGrantedToken ==
    /\ [](\A i \in 1..Len(ListRequests) :
            /\ TokenGranted
            /\ ListRequests[i].auth # ""
            /\ ListRequests[i].auth = tokenResp[1].body.token)
    /\ [](pc = "listGet" =>
            sent[1].authorization = <<"Bearer ", tokenResp[1].body.token>>)
    /\ [][(pc = "tokenGet" /\ pc' = "done") =>
            (token' = token /\ token' = "" /\ ListRequests' = <<>>)]_vars
    /\ [][(pc = "done" /\ ListRequests = <<>>) => ListRequests' = <<>>]_vars

\* after a login, a listing request is in flight with the granted token
C27_Witness ==
    /\ loginOk
    /\ pc = "listGet"
    /\ TokenGranted
    /\ ListRequests[Len(ListRequests)].auth = "tok1"
    /\ sent[1].authorization = <<"Bearer ", "tok1">>

-----------------------------------------------------------------------------
(* main(): a run without credentials *)

\* the setting is given on the command line or in the environment
Available(s) == FlagValue(s) # <<>> \/ process.env[s] # <<>>

\* C28: when neither a session cookie nor both a username and a password
\* are available, the run ends with a non-zero exit status without issuing
\* any network request and without writing any file
C28_NoCredentialsNoRun ==
    (/\ Parsed
     /\ ~Available("sessionCookie")
     /\ ~(Available("username") /\ Available("password"))) =>
        /\ pc = "done"
        /\ exitCode > 0
        /\ requests = <<>>
        /\ file = <<"untouched">>

-----------------------------------------------------------------------------
(* A listing body that is not the expected structure *)

\* the response for page 1 has just been processed: status 200, and a body
\* that is raw text or an object without _embedded, total and size
UnexpectedFirst ==
    /\ FirstWithoutEmbedded
    /\ lastList[1].kind \in {"text", "object"}
    /\ lastList[1].total = Absent
    /\ lastList[1].size = Absent

\* C29: a listing response with status 200 whose body is not the expected
\* structure (raw text, or an object with no embedded records and no total
\* and size) is not an error: fetchAllReservations returns an empty
\* sequence after one request, and the run then writes an output file
\* holding an empty array and exits 0 (unless the file system refuses)
C29_UnexpectedBodyIsEmptyResult ==
    /\ [](UnexpectedFirst =>
            /\ returned /\ result = <<>> /\ Len(ListRequests) = 1
            /\ pc = "mkdir" /\ exitCode = -1 /\ error = "")
    /\ [][UnexpectedFirst =>
            \/ pc' = "writeFile" /\ result' = <<>> /\ exitCode' = -1
            \/ pc' = "done" /\ error' = "mkdir failed"]_vars
    /\ [][(pc = "writeFile" /\ result = <<>>) =>
            \/ pc' = "done" /\ exitCode' = 0 /\ error' = ""
                    /\ file' = <<"json", <<>>>> /\ requests' = requests
            \/ pc' = "done" /\ error' = "write failed"]_vars

\* the server answered the listing request with a page of text
C29_Witness ==
    /\ UnexpectedFirst
    /\ lastList[1].kind = "text"
    /\ returned
    /\ pc = "mkdir"

-----------------------------------------------------------------------------
(* saveReservations(): where the file goes *)

\* c is the last path component of name: it holds no separator, it begins
\* the name or follows a separator, and only separators follow it
IsLastComponent(name, c) ==
    \E i \in 0..Len(name), j \in 1..Len(name) :
        /\ i < j
        /\ c = SubSeq(name, i + 1, j)
        /\ \A k \in i + 1..j : name[k] # "/"
        /\ i = 0 \/ name[i] = "/"
        /\ \A k \in j + 1..Len(name) : name[k] = "/"

====
